---- MODULE Spec2Model ----
(***************************************************************************)
(* Model of the agent framework: StateManager (agent/state_manager.py), a  *)
(* key-value store with JSON persistence, and BaseAgent                     *)
(* (agent/base_agent.py), which wraps one process() call in lifecycle      *)
(* hooks that write into its StateManager.                                 *)
(*                                                                         *)
(* Two StateManager instances share one state directory.  Store 1 is the   *)
(* agent's state_manager, store 2 is a second instance created on the same *)
(* directory (as new_sm in test_save_and_load).                            *)
(***************************************************************************)
EXTENDS Integers, Sequences, FiniteSets, TLC

\* ---------------------------------------------------------------- bounds
\* The clock counts ticks (the resolution of datetime.now()); it stops at
\* MaxTime.  TicksPerSecond ticks make one second, the resolution of the
\* strftime('%Y%m%d_%H%M%S') used for automatic file names.
MaxTime == 2
TicksPerSecond == 2
\* Number of caller-level operations (store calls and run calls) in a behaviour.
MaxOps == 3
\* Number of caller-level operations on the agent (run and set_state calls).
MaxCalls == 2

Stores == {1, 2}
AgentStore == 1

\* ---------------------------------------------------------------- time
\* datetime.now().isoformat(): the full-resolution timestamp, as its
\* (seconds, sub-second) fields.
IsoFormat(t) == [sec |-> t \div TicksPerSecond, usec |-> t % TicksPerSecond]

\* datetime.now().strftime('%Y%m%d_%H%M%S'): second resolution, the
\* sub-second part is dropped.
StrfTime(t) == t \div TicksPerSecond

\* Chronological order of two isoformat timestamps (the order of the strings).
IsoLeq(a, b) == a.sec < b.sec \/ (a.sec = b.sec /\ a.usec <= b.usec)

\* ---------------------------------------------------------------- values
\* A Python value held in the store: t is its Python type, n its numeric
\* content, s its textual content.
PyInt(i) == [t |-> "int", n |-> <<i>>, s |-> <<>>]
PyList(l) == [t |-> "list", n |-> l, s |-> <<>>]
PyTuple(l) == [t |-> "tuple", n |-> l, s |-> <<>>]
\* An instance of a class json cannot encode (e.g. object()).
PyObject == [t |-> "pyobject", n |-> <<>>, s |-> <<>>]
\* None, the default of get's default argument.
PyNone == [t |-> "NoneType", n |-> <<>>, s |-> <<>>]
\* The string produced by datetime.now().isoformat().
PyIsoStr(t) == [t |-> "str", n |-> <<IsoFormat(t).sec, IsoFormat(t).usec>>, s |-> <<>>]

\* Values a caller passes to set.
UserValues == {PyInt(1), PyTuple(<<1>>), PyObject}
UserKeys == {"k1", "k2"}

\* ---------------------------------------------------------------- exceptions
NoExc == [kind |-> "none", msg |-> ""]
\* json.dump on a value it cannot encode.
SerializationError == [kind |-> "TypeError", msg |-> "Object of type object is not JSON serializable"]
\* open(filepath, 'w') failing in the file system.
WriteError == [kind |-> "OSError", msg |-> "cannot open file for writing"]
\* open/exists on a missing document.
NotFound == [kind |-> "FileNotFoundError", msg |-> "State file not found"]
\* json.load on a truncated document.
DecodeError == [kind |-> "JSONDecodeError", msg |-> "Expecting value"]

\* ---------------------------------------------------------------- JSON
\* json.dump: the JSON type a Python value is written as.
JsonType(t) ==
    CASE t = "int" -> "number"
      [] t = "str" -> "string"
      [] t = "list" -> "array"
      [] t = "tuple" -> "array"
      [] t = "dict" -> "object"
      [] t = "NoneType" -> "null"
      [] OTHER -> "unserializable"

\* json.load: the Python type a JSON value is read as.
PyType(j) ==
    CASE j = "number" -> "int"
      [] j = "string" -> "str"
      [] j = "array" -> "list"
      [] j = "object" -> "dict"
      [] j = "null" -> "NoneType"
      [] OTHER -> "pyobject"

JsonDumpValue(v) == [v EXCEPT !.t = JsonType(v.t)]
JsonLoadValue(j) == [j EXCEPT !.t = PyType(j.t)]

JsonDump(ents) == [k \in DOMAIN ents |-> JsonDumpValue(ents[k])]
JsonLoad(state) == [k \in DOMAIN state |-> JsonLoadValue(state[k])]

Serializable(ents) == \A k \in DOMAIN ents : JsonType(ents[k].t) # "unserializable"

\* ---------------------------------------------------------------- files
\* A file name: a stem and the number of ".json" suffixes that follow it.
NoName == [kind |-> "none", id |-> 0, ext |-> 0]
\* The names a caller passes: "snap1" and "snap1.json".
CallerNames == [kind : {"user"}, id : {1}, ext : {0, 1}]
\* The automatic name as it would be with the full resolution of the clock.
AutoName_Ticks(t) == [kind |-> "state", id |-> t, ext |-> 0]

\* f"state_{now:%Y%m%d_%H%M%S}" and f"backup_{now:%Y%m%d_%H%M%S}"
AutoName(t) == [kind |-> "state", id |-> StrfTime(t), ext |-> 0]
BackupName(t) == [kind |-> "backup", id |-> StrfTime(t), ext |-> 0]

\* f"{filename}.json"
AppendJson(name) == [name EXCEPT !.ext = @ + 1]
\* if not filename.endswith('.json'): filename += '.json'
EnsureJson(name) == IF name.ext = 0 THEN AppendJson(name) ELSE name

EmptyDir == [x \in {} |-> 0]
EmptyEntries == [x \in {} |-> 0]

Put(f, x, y) == [z \in (DOMAIN f) \cup {x} |-> IF z = x THEN y ELSE f[z]]
Remove(f, x) == [z \in (DOMAIN f) \ {x} |-> f[z]]

\* The document json.dump leaves in the file: the whole {metadata, state}
\* object, or, when a value cannot be encoded, the text written before the
\* TypeError (not parseable).
Document(meta, ents) ==
    IF Serializable(ents)
    THEN [whole |-> TRUE, metadata |-> meta, state |-> JsonDump(ents)]
    ELSE [whole |-> FALSE, metadata |-> meta, state |-> EmptyEntries]

\* with open(filepath, 'w') as f: json.dump(data, f, indent=2)
\* io is whether the file system lets the file be opened for writing.
WriteJson(dir, path, meta, ents, io) ==
    IF ~io THEN [dir |-> dir, exc |-> WriteError]
    ELSE [dir |-> Put(dir, path, Document(meta, ents)),
          exc |-> IF Serializable(ents) THEN NoExc ELSE SerializationError]

\* ---------------------------------------------------------------- StateManager
\* Every method is an operator from the store's fields, the directory, the
\* arguments, the clock reading t and the file system's answer io to the
\* fields and directory after the call and the exception it raises (NoExc
\* when it returns normally).

\* StateManager.__init__: the metadata of a store constructed at time t.
NewMetadata(t) == [created_at |-> IsoFormat(t), updated_at |-> IsoFormat(t), version |-> "1.0"]

\* The re-stamp as it would be if it also reset created_at.
Touch_Created(meta, t) == [meta EXCEPT !.updated_at = IsoFormat(t), !.created_at = IsoFormat(t)]

\* The re-stamp as it would be with the second-resolution time of the file names.
Touch_Seconds(meta, t) == [meta EXCEPT !.updated_at = [sec |-> StrfTime(t), usec |-> 0]]

\* self.metadata["updated_at"] = datetime.now().isoformat()
Touch(meta, t) == [meta EXCEPT !.updated_at = IsoFormat(t)]

\* StateManager.save(filename): filename = NoName stands for None.
SaveName(filename, t) == IF filename = NoName THEN AutoName(t) ELSE filename

SavePath(filename, t) == AppendJson(SaveName(filename, t))

SaveOp(ents, meta, dir, filename, t, io) ==
    LET w == WriteJson(dir, SavePath(filename, t), meta, ents, io)
    IN  [entries |-> ents, metadata |-> meta, dir |-> w.dir, exc |-> w.exc, ret |-> "path"]

\* The autosave as it would be if it kept an existing document of the
\* current second instead of overwriting it.
AutoSave_OncePerSecond(ents, meta, dir, auto, t, io, ret) ==
    IF auto /\ SavePath(NoName, t) \notin DOMAIN dir
    THEN [SaveOp(ents, meta, dir, NoName, t, io) EXCEPT !.ret = ret]
    ELSE [entries |-> ents, metadata |-> meta, dir |-> dir, exc |-> NoExc, ret |-> ret]

\* if self.autosave: self.save()
AutoSave(ents, meta, dir, auto, t, io, ret) ==
    IF auto
    THEN [SaveOp(ents, meta, dir, NoName, t, io) EXCEPT !.ret = ret]
    ELSE [entries |-> ents, metadata |-> meta, dir |-> dir, exc |-> NoExc, ret |-> ret]

\* set as it would be if it refused a value json cannot encode before
\* assigning it.
SetOp_Checked(ents, meta, dir, auto, k, v, t, io) ==
    IF JsonType(v.t) = "unserializable"
    THEN [entries |-> ents, metadata |-> meta, dir |-> dir, exc |-> SerializationError,
          ret |-> "none"]
    ELSE AutoSave(Put(ents, k, v), Touch(meta, t), dir, auto, t, io, "none")

\* set as it would be if it persisted first and kept the in-memory update
\* only when the autosave succeeded.
SetOp_SaveFirst(ents, meta, dir, auto, k, v, t, io) ==
    LET r == AutoSave(Put(ents, k, v), Touch(meta, t), dir, auto, t, io, "none")
    IN  IF r.exc = NoExc THEN r ELSE [r EXCEPT !.entries = ents, !.metadata = meta]

\* StateManager.set(key, value)
SetOp(ents, meta, dir, auto, k, v, t, io) ==
    AutoSave(Put(ents, k, v), Touch(meta, t), dir, auto, t, io, "none")

\* get as it would be if it ignored the caller's default.
GetOp_IgnoreDefault(ents, k, d) == IF k \in DOMAIN ents THEN ents[k] ELSE PyNone

\* StateManager.get(key, default): self.state.get(key, default)
GetOp(ents, k, d) == IF k \in DOMAIN ents THEN ents[k] ELSE d

\* isinstance(value, expected_type) for the types a schema names.
IsInstance(v, type) == v.t = type

\* validate_state as it would be if a key of the schema had to be present.
ValidateOp_Required(ents, schema) ==
    \A k \in DOMAIN schema : k \in DOMAIN ents /\ IsInstance(ents[k], schema[k])

\* StateManager.validate_state(schema): False at the first key of the schema
\* that is in self.state with a value of another type, True otherwise.
ValidateOp(ents, schema) ==
    \A k \in DOMAIN schema : k \in DOMAIN ents => IsInstance(ents[k], schema[k])

\* delete as it would be if it re-stamped and autosaved without testing
\* whether the key is present.
DeleteOp_AlwaysSave(ents, meta, dir, auto, k, t, io) ==
    AutoSave(Remove(ents, k), Touch(meta, t), dir, auto, t, io,
             IF k \in DOMAIN ents THEN "true" ELSE "false")

\* StateManager.delete(key)
DeleteOp(ents, meta, dir, auto, k, t, io) ==
    IF k \in DOMAIN ents
    THEN AutoSave(Remove(ents, k), Touch(meta, t), dir, auto, t, io, "true")
    ELSE [entries |-> ents, metadata |-> meta, dir |-> dir, exc |-> NoExc, ret |-> "false"]

\* StateManager.clear()
ClearOp(ents, meta, dir, auto, t, io) ==
    AutoSave(EmptyEntries, Touch(meta, t), dir, auto, t, io, "none")

\* load as it would be if it updated the entries with the document's
\* (self.state.update(...)) instead of replacing them.
LoadOp_Merge(ents, meta, dir, filename, t) ==
    LET path == EnsureJson(filename)
        same == [entries |-> ents, metadata |-> meta, dir |-> dir, exc |-> NoExc, ret |-> "none"]
        doc == JsonLoad(dir[path].state)
    IN  IF path \notin DOMAIN dir THEN [same EXCEPT !.exc = NotFound]
        ELSE IF ~dir[path].whole THEN [same EXCEPT !.exc = DecodeError]
        ELSE [same EXCEPT !.entries = [k \in (DOMAIN ents) \cup (DOMAIN doc) |->
                                          IF k \in DOMAIN doc THEN doc[k] ELSE ents[k]],
                          !.metadata = Touch(dir[path].metadata, t)]

\* load as it would be if it re-stamped updated_at before looking for the file.
LoadOp_TouchFirst(ents, meta, dir, filename, t) ==
    LET path == EnsureJson(filename)
        same == [entries |-> ents, metadata |-> Touch(meta, t), dir |-> dir, exc |-> NoExc, ret |-> "none"]
    IN  IF path \notin DOMAIN dir THEN [same EXCEPT !.exc = NotFound]
        ELSE IF ~dir[path].whole THEN [same EXCEPT !.exc = DecodeError]
        ELSE [same EXCEPT !.entries = JsonLoad(dir[path].state),
                          !.metadata = Touch(dir[path].metadata, t)]

\* StateManager.load(filename)
LoadOp(ents, meta, dir, filename, t) ==
    LET path == EnsureJson(filename)
        same == [entries |-> ents, metadata |-> meta, dir |-> dir, exc |-> NoExc, ret |-> "none"]
    IN  IF path \notin DOMAIN dir THEN [same EXCEPT !.exc = NotFound]
        ELSE IF ~dir[path].whole THEN [same EXCEPT !.exc = DecodeError]
        ELSE [same EXCEPT !.entries = JsonLoad(dir[path].state),
                          !.metadata = Touch(dir[path].metadata, t)]

\* StateManager.list_states(): [f.name for f in self.state_dir.glob("*.json")],
\* the files of state_dir itself whose name ends in ".json".
ListStates(dir) == {p \in DOMAIN dir : p.ext >= 1}

\* backup as it would be if it re-stamped updated_at in the document it writes.
BackupOp_Touch(ents, meta, bdir, t, io) ==
    WriteJson(bdir, AppendJson(BackupName(t)), Touch(meta, t), ents, io)

\* StateManager.backup(): the default directory, state_dir / "backups".
BackupOp(ents, meta, bdir, t, io) ==
    WriteJson(bdir, AppendJson(BackupName(t)), meta, ents, io)

\* ---------------------------------------------------------------- BaseAgent
\* What a call hands back to its caller: a returned value or a raised exception.
NoOutcome == [kind |-> "none", val |-> "", exc |-> NoExc]
Returned(v) == [kind |-> "return", val |-> v, exc |-> NoExc]
Raised(e) == [kind |-> "raise", val |-> "", exc |-> e]

\* The process() of a concrete agent: for an input it returns a result or
\* raises an Exception (TestAgent and ErrorAgent of the tests).
Inputs == {"hello"}
ProcessedResult(x) == "Processed: " \o x
Failures == {[kind |-> "ValueError", msg |-> "Test error"]}
ProcessOutcomes(x) == {Returned(ProcessedResult(x))} \cup {Raised(f) : f \in Failures}

\* The value on_error stores: {"timestamp": now, "error": str(e), "type": type(e).__name__}
ErrorRecord(e, t) ==
    [t |-> "dict", n |-> <<IsoFormat(t).sec, IsoFormat(t).usec>>, s |-> <<e.msg, e.kind>>]

\* run as it would be if a raising step went straight to the finally clause.
AfterTry_SkipExcept(exc, next) == IF exc = NoExc THEN next ELSE "on_stop"

\* Where run goes after on_start, process or on_success: on to the next
\* step, or into the except clause when the step raised.
AfterTry(exc, next) == IF exc = NoExc THEN next ELSE "on_error"

\* except Exception as e: self.on_error(e); raise
\* The exception that leaves the except clause: e, unless on_error raised.
ExceptRaises(e, hookExc) == IF hookExc = NoExc THEN e ELSE hookExc

\* finally: self.on_stop(); self.is_running = False
\* What run hands to its caller: the pending return or exception, unless
\* on_stop raised.
FinallyOutcome(pending, stopExc) == IF stopExc = NoExc THEN pending ELSE Raised(stopExc)

\* is_running after the finally clause: the assignment after on_stop is
\* reached only when on_stop returned.
FinallyRunning(running, stopExc) == IF stopExc = NoExc THEN FALSE ELSE running

\* ---------------------------------------------------------------- state
VARIABLES
    now,        \* the clock, in ticks
    writable,   \* whether the file system lets files be opened for writing
    entries,    \* entries[s]: StateManager.state of store s
    metadata,   \* metadata[s]: StateManager.metadata of store s
    autosave,   \* autosave[s]: StateManager.autosave of store s
    dir,        \* the documents in state_dir, by file name
    backups,    \* the documents in state_dir / "backups"
    ops,        \* number of caller-level operations so far
    last,       \* the last store call: its arguments, return value and exception
    running,    \* BaseAgent.is_running
    pc,         \* the position of the agent's run call ("idle": no call in progress)
    caught,     \* the exception caught by run's except clause
    pending,    \* the return value or exception run is about to hand to its caller
    outcome,    \* what the last finished run handed to its caller
    procOut,    \* what process did in the current or last run
    hooks,      \* the hooks and process invoked by the current or last run, in order
    written,    \* the values the hooks of the current or last run passed to set
    marks,      \* how often the current or last run executed is_running = False
    log,        \* the set, delete and clear calls made on the agent's store, in order
    snapshot,   \* the mapping the last get_state call returned, as its caller holds it
    shared      \* the keys whose value object is one and the same in snapshot and store

agentVars == <<running, pc, caught, pending, outcome, procOut, hooks, written, marks>>
\* The variables only the key-value and the agent specification change.
auxVars == <<log, snapshot, shared>>
vars == <<now, writable, entries, metadata, autosave, dir, backups, ops, last,
          running, pc, caught, pending, outcome, procOut, hooks, written, marks,
          log, snapshot, shared>>

\* A call that has no value argument, schema argument or returned value
\* records NoValue and NoSchema for them.
NoValue == [t |-> "absent", n |-> <<>>, s |-> <<>>]
NoSchema == [x \in {} |-> ""]

NoCall == [op |-> "none", store |-> 0, key |-> "", name |-> NoName, arg |-> NoValue,
           schema |-> NoSchema, ret |-> "none", val |-> NoValue, exc |-> NoExc]

\* ret is the returned value, "raised" when the call raised instead.
Call(op, s, k, name, r) ==
    [op |-> op, store |-> s, key |-> k, name |-> name, arg |-> NoValue,
     schema |-> NoSchema,
     ret |-> IF r.exc = NoExc THEN r.ret ELSE "raised", val |-> NoValue, exc |-> r.exc]

\* Both stores constructed on an empty directory, the agent's at tick 0 with
\* either autosave setting, the second at tick 1 with autosave=False (as the
\* tests construct it); the agent constructed with is_running = False.
Init ==
    /\ now = 1
    /\ metadata = [s \in Stores |-> IF s = AgentStore THEN NewMetadata(0) ELSE NewMetadata(1)]
    /\ writable = TRUE
    /\ entries = [s \in Stores |-> EmptyEntries]
    /\ autosave \in {f \in [Stores -> BOOLEAN] : ~f[2]}
    /\ dir = EmptyDir
    /\ backups = EmptyDir
    /\ ops = 0
    /\ last = NoCall
    /\ running = FALSE
    /\ pc = "idle"
    /\ caught = NoExc
    /\ pending = NoOutcome
    /\ outcome = NoOutcome
    /\ procOut = NoOutcome
    /\ hooks = <<>>
    /\ written = EmptyEntries
    /\ marks = 0
    /\ log = <<>>
    /\ snapshot = EmptyEntries
    /\ shared = {}

\* The clock advances.
Tick ==
    /\ now < MaxTime
    /\ now' = now + 1
    /\ UNCHANGED <<writable, entries, metadata, autosave, dir, backups, ops, last>>
    /\ UNCHANGED agentVars

\* The file system stops or resumes accepting writes (disk full, directory
\* removed or restored).
FsChange ==
    /\ writable' = ~writable
    /\ UNCHANGED <<now, entries, metadata, autosave, dir, backups, ops, last>>
    /\ UNCHANGED agentVars

\* The effect of a store method's result r on store s.
Apply(s, r) ==
    /\ entries' = [entries EXCEPT ![s] = r.entries]
    /\ metadata' = [metadata EXCEPT ![s] = r.metadata]
    /\ dir' = r.dir

\* A caller starts an operation: none is in progress (single-threaded use).
Begin ==
    /\ pc = "idle"
    /\ ops < MaxOps
    /\ ops' = ops + 1

Set(s, k, v) ==
    /\ Begin
    /\ LET r == SetOp(entries[s], metadata[s], dir, autosave[s], k, v, now, writable)
       IN  Apply(s, r) /\ last' = [Call("set", s, k, NoName, r) EXCEPT !.arg = v]
    /\ UNCHANGED <<now, writable, autosave, backups>>
    /\ UNCHANGED agentVars

Delete(s, k) ==
    /\ Begin
    /\ LET r == DeleteOp(entries[s], metadata[s], dir, autosave[s], k, now, writable)
       IN  Apply(s, r) /\ last' = Call("delete", s, k, NoName, r)
    /\ UNCHANGED <<now, writable, autosave, backups>>
    /\ UNCHANGED agentVars

Clear(s) ==
    /\ Begin
    /\ LET r == ClearOp(entries[s], metadata[s], dir, autosave[s], now, writable)
       IN  Apply(s, r) /\ last' = Call("clear", s, "", NoName, r)
    /\ UNCHANGED <<now, writable, autosave, backups>>
    /\ UNCHANGED agentVars

\* The defaults a caller passes to get: None when it passes none.
Defaults == {PyNone, PyInt(0)}

Get(s, k, d) ==
    /\ Begin
    /\ last' = [NoCall EXCEPT !.op = "get", !.store = s, !.key = k, !.arg = d,
                              !.ret = "value", !.val = GetOp(entries[s], k, d)]
    /\ UNCHANGED <<now, writable, entries, metadata, autosave, dir, backups>>
    /\ UNCHANGED agentVars

\* The schemas a caller passes to validate_state: expected types for some keys.
Kinds == {"int", "str"}
Schemas == UNION {[ks -> Kinds] : ks \in SUBSET UserKeys}

Validate(s, schema) ==
    /\ Begin
    /\ last' = [NoCall EXCEPT !.op = "validate", !.store = s, !.schema = schema,
                              !.ret = IF ValidateOp(entries[s], schema) THEN "true" ELSE "false"]
    /\ UNCHANGED <<now, writable, entries, metadata, autosave, dir, backups>>
    /\ UNCHANGED agentVars

Save(s, name) ==
    /\ Begin
    /\ LET r == SaveOp(entries[s], metadata[s], dir, name, now, writable)
       IN  Apply(s, r) /\ last' = Call("save", s, "", name, r)
    /\ UNCHANGED <<now, writable, autosave, backups>>
    /\ UNCHANGED agentVars

Load(s, name) ==
    /\ Begin
    /\ LET r == LoadOp(entries[s], metadata[s], dir, name, now)
       IN  Apply(s, r) /\ last' = Call("load", s, "", name, r)
    /\ UNCHANGED <<now, writable, autosave, backups>>
    /\ UNCHANGED agentVars

Backup(s) ==
    /\ Begin
    /\ LET w == BackupOp(entries[s], metadata[s], backups, now, writable)
       IN  /\ backups' = w.dir
           /\ last' = Call("backup", s, "", NoName, [ret |-> "path", exc |-> w.exc])
    /\ UNCHANGED <<now, writable, entries, metadata, autosave, dir>>
    /\ UNCHANGED agentVars

\* ---------------------------------------------------------------- run
\* self.state_manager.set(key, value) called by a hook of the agent.
HookSet(hook, key, value) ==
    LET r == SetOp(entries[AgentStore], metadata[AgentStore], dir, autosave[AgentStore],
                   key, value, now, writable)
    IN  r

\* What every step of run leaves alone.
RunFrame == UNCHANGED <<now, writable, autosave, backups, ops, last>>

\* run: self.is_running = True
RunBegin(x) ==
    /\ Begin
    /\ running' = TRUE
    /\ pc' = "on_start"
    /\ caught' = NoExc
    /\ pending' = NoOutcome
    /\ outcome' = NoOutcome
    /\ procOut' = [NoOutcome EXCEPT !.val = x]
    /\ hooks' = <<>>
    /\ written' = EmptyEntries
    /\ marks' = 0
    /\ UNCHANGED <<now, writable, entries, metadata, autosave, dir, backups, last>>

\* try: self.on_start()
OnStart ==
    /\ pc = "on_start"
    /\ LET v == PyIsoStr(now)
           r == HookSet("on_start", "last_start", v)
       IN  /\ Apply(AgentStore, r)
           /\ written' = Put(written, "last_start", v)
           /\ caught' = r.exc
           /\ pc' = AfterTry(r.exc, "process")
    /\ hooks' = Append(hooks, "on_start")
    /\ UNCHANGED <<running, pending, outcome, procOut, marks>>
    /\ RunFrame

\* result = self.process(input_data)
Process(out) ==
    /\ pc = "process"
    /\ procOut' = out
    /\ caught' = out.exc
    /\ pc' = AfterTry(out.exc, "on_success")
    /\ hooks' = Append(hooks, "process")
    /\ UNCHANGED <<running, pending, outcome, written, marks>>
    /\ UNCHANGED <<entries, metadata, dir>>
    /\ RunFrame

\* self.on_success(result); return result
OnSuccess ==
    /\ pc = "on_success"
    /\ LET v == PyIsoStr(now)
           r == HookSet("on_success", "last_success", v)
       IN  /\ Apply(AgentStore, r)
           /\ written' = Put(written, "last_success", v)
           /\ caught' = r.exc
           /\ pending' = IF r.exc = NoExc THEN Returned(procOut.val) ELSE pending
           /\ pc' = AfterTry(r.exc, "on_stop")
    /\ hooks' = Append(hooks, "on_success")
    /\ UNCHANGED <<running, outcome, procOut, marks>>
    /\ RunFrame

\* except Exception as e: self.on_error(e); raise
OnError ==
    /\ pc = "on_error"
    /\ LET v == ErrorRecord(caught, now)
           r == HookSet("on_error", "last_error", v)
       IN  /\ Apply(AgentStore, r)
           /\ written' = Put(written, "last_error", v)
           /\ pending' = Raised(ExceptRaises(caught, r.exc))
    /\ pc' = "on_stop"
    /\ hooks' = Append(hooks, "on_error")
    /\ UNCHANGED <<running, caught, outcome, procOut, marks>>
    /\ RunFrame

\* finally: self.on_stop(); self.is_running = False
OnStop ==
    /\ pc = "on_stop"
    /\ LET v == PyIsoStr(now)
           r == HookSet("on_stop", "last_stop", v)
       IN  /\ Apply(AgentStore, r)
           /\ written' = Put(written, "last_stop", v)
           /\ outcome' = FinallyOutcome(pending, r.exc)
           /\ running' = FinallyRunning(running, r.exc)
           /\ marks' = IF r.exc = NoExc THEN marks + 1 ELSE marks
    /\ pc' = "idle"
    /\ hooks' = Append(hooks, "on_stop")
    /\ UNCHANGED <<caught, pending, procOut>>
    /\ RunFrame

\* BaseAgent.set_state(key, value)
SetState(k, v) == Set(AgentStore, k, v)

\* ---------------------------------------------------------------- get_state
\* The values a caller can change in place: lists and dicts.
Mutable(v) == v.t \in {"list", "dict"}

\* A change made in place to a mutable value: an item of a dict reassigned,
\* a list emptied.
Tamper(v) == IF v.t = "dict" THEN [v EXCEPT !.s[1] = "tampered"] ELSE [v EXCEPT !.n = <<>>]

\* BaseAgent.get_state(): self.state_manager.state.copy() is a new dict that
\* holds the very value objects the store holds.
GetStateOp(ents) == [mapping |-> ents, aliased |-> {k \in DOMAIN ents : Mutable(ents[k])}]

GetState ==
    /\ Begin
    /\ LET r == GetStateOp(entries[AgentStore])
       IN  /\ snapshot' = r.mapping
           /\ shared' = r.aliased
    /\ last' = [NoCall EXCEPT !.op = "get_state", !.store = AgentStore, !.ret = "mapping"]
    /\ UNCHANGED <<now, writable, entries, metadata, autosave, dir, backups, log>>
    /\ UNCHANGED agentVars

\* The keys of the returned mapping its caller changes: one it set itself
\* and the record on_error stored.
SnapshotKeys == {"k1", "last_error"}

\* What leaves the store, its files and the agent alone.
CallerFrame ==
    /\ UNCHANGED <<now, writable, metadata, autosave, dir, backups, ops, last, log>>
    /\ UNCHANGED agentVars

\* The caller assigns a key of the mapping it was handed (one that holds entries).
SnapshotAssign(k, v) ==
    /\ pc = "idle"
    /\ snapshot # EmptyEntries
    /\ snapshot' = Put(snapshot, k, v)
    /\ shared' = shared \ {k}
    /\ UNCHANGED entries
    /\ CallerFrame

\* The caller removes a key of the mapping it was handed.
SnapshotRemove(k) ==
    /\ pc = "idle"
    /\ k \in DOMAIN snapshot
    /\ snapshot' = Remove(snapshot, k)
    /\ shared' = shared \ {k}
    /\ UNCHANGED entries
    /\ CallerFrame

\* The caller changes a value of the mapping in place: whoever holds the
\* same object sees the change.
SnapshotMutate(k) ==
    /\ pc = "idle"
    /\ k \in DOMAIN snapshot
    /\ Mutable(snapshot[k])
    /\ snapshot' = [snapshot EXCEPT ![k] = Tamper(@)]
    /\ entries' = IF k \in shared
                  THEN [entries EXCEPT ![AgentStore][k] = Tamper(@)]
                  ELSE entries
    /\ UNCHANGED shared
    /\ CallerFrame

\* ---------------------------------------------------------------- specifications
\* The store: two StateManager instances on one directory whose file system
\* accepts every write, so that a save fails only by a value json cannot encode.
StoreCall ==
    \E s \in Stores :
        \/ \E k \in UserKeys, v \in UserValues : Set(s, k, v)
        \/ \E k \in UserKeys : Delete(s, k)
        \/ Clear(s)
        \/ \E name \in CallerNames \cup {NoName} : Save(s, name)
        \/ \E name \in CallerNames : Load(s, name)
        \/ Backup(s)

Next ==
    /\ \/ Tick
       \/ StoreCall
    /\ UNCHANGED auxVars

Spec == Init /\ [][Next]_vars

\* The agent: run calls and set_state calls on one agent, on a file system
\* that may stop and resume accepting writes at any point, also between
\* the steps of a run.
\* self.state[key] = value binds key to a new object: the value a snapshot
\* holds under key is no longer the store's.
Rebind(keys) ==
    /\ shared' = shared \ keys
    /\ UNCHANGED <<log, snapshot>>

Run ==
    \/ OnStart /\ Rebind({"last_start"})
    \/ (\E out \in ProcessOutcomes(procOut.val) : Process(out)) /\ UNCHANGED auxVars
    \/ OnSuccess /\ Rebind({"last_success"})
    \/ OnError /\ Rebind({"last_error"})
    \/ OnStop /\ Rebind({"last_stop"})

AgentNext ==
    \/ Tick /\ UNCHANGED auxVars
    \/ FsChange /\ UNCHANGED auxVars
    \/ ops < MaxCalls /\ \E k \in UserKeys, v \in UserValues : SetState(k, v) /\ Rebind({k})
    \/ ops < MaxCalls /\ (\E x \in Inputs : RunBegin(x)) /\ UNCHANGED auxVars
    \/ Run
    \/ ops < MaxCalls /\ GetState
    \/ \E k \in SnapshotKeys \cap UserKeys : SnapshotAssign(k, PyInt(0))
    \/ \E k \in SnapshotKeys : SnapshotRemove(k)
    \/ \E k \in SnapshotKeys : SnapshotMutate(k)

AgentSpec == Init /\ [][AgentNext]_vars

\* ---------------------------------------------------------------- key-value specification
\* One store used through set, delete, clear, get and validate_state only;
\* log keeps the mutating calls in the order they were made.
Logged(op, k, v) ==
    /\ log' = Append(log, [op |-> op, key |-> k, arg |-> v])
    /\ UNCHANGED <<snapshot, shared>>

KvNext ==
    \/ \E k \in UserKeys, v \in UserValues : Set(AgentStore, k, v) /\ Logged("set", k, v)
    \/ \E k \in UserKeys : Delete(AgentStore, k) /\ Logged("delete", k, NoValue)
    \/ Clear(AgentStore) /\ Logged("clear", "", NoValue)
    \/ \E k \in UserKeys, d \in Defaults : Get(AgentStore, k, d) /\ UNCHANGED auxVars
    \/ \E schema \in Schemas : Validate(AgentStore, schema) /\ UNCHANGED auxVars

KvSpec == Init /\ [][KvNext]_vars

\* ---------------------------------------------------------------- properties

CountOf(seq, x) == Cardinality({i \in 1..Len(seq) : seq[i] = x})

\* A run call has finished and control is back with the caller.
RunFinished == pc = "idle" /\ hooks # <<>>

AgentEntries == entries[AgentStore]

\* The hook that wrote key did so in the finished run and its value is in the store.
WrittenByRun(key) ==
    /\ key \in DOMAIN written
    /\ key \in DOMAIN AgentEntries
    /\ AgentEntries[key] = written[key]

\* C1: whenever control is with the caller, is_running is false, and a
\* finished run has executed "is_running = False" exactly once.
C1_NeverStuckRunning ==
    pc = "idle" => (running = FALSE /\ (RunFinished => marks = 1))

\* C2: when process raised F, the caller of run receives F itself, and
\* last_error holds the message and kind of F.
C2_ProcessFailureReraised ==
    (RunFinished /\ procOut.kind = "raise") =>
        /\ outcome = Raised(procOut.exc)
        /\ WrittenByRun("last_error")
        /\ written["last_error"].s = <<procOut.exc.msg, procOut.exc.kind>>

\* C3: in every run on_stop is invoked exactly once, as the last hook and
\* directly after on_success or on_error, whether or not a hook raised; after
\* the run the store holds the last_stop value that run wrote.
C3_OnStopOnceAndLast ==
    /\ \A i \in 1..Len(hooks) :
          hooks[i] = "on_stop" =>
              /\ i = Len(hooks)
              /\ i > 1
              /\ hooks[i - 1] \in {"on_success", "on_error"}
    /\ CountOf(hooks, "on_stop") = (IF RunFinished THEN 1 ELSE 0)
    /\ RunFinished => WrittenByRun("last_stop")

\* A run in which process returned and a later hook raised has finished.
C3_Witness ==
    /\ RunFinished
    /\ procOut.kind = "return"
    /\ outcome.kind = "raise"
    /\ CountOf(hooks, "on_error") = 1

\* C4: when process returned r, run returns r, the store holds the
\* last_start, last_success and last_stop written by that run, and that run
\* did not write last_error.
C4_NormalReturn ==
    (RunFinished /\ procOut.kind = "return") =>
        /\ outcome = Returned(procOut.val)
        /\ WrittenByRun("last_start")
        /\ WrittenByRun("last_success")
        /\ WrittenByRun("last_stop")
        /\ "last_error" \notin DOMAIN written

\* This step is a call of the store method op.
IsCall(op) == ops' # ops /\ last'.op = op

\* This step is a load by another store of the document that the call
\* before it, a save under a caller's name (given without extension, as save
\* documents it), has written.
RoundTripStep ==
    /\ last.op = "save"
    /\ last.exc = NoExc
    /\ last.name \in CallerNames
    /\ last.name.ext = 0
    /\ IsCall("load")
    /\ last'.store # last.store
    /\ EnsureJson(last'.name) = AppendJson(last.name)

\* C5 as stated: save(name) then load(name) into another store yields
\* entries exactly equal to the saved entries E, the saved version, and
\* updated_at equal to the load time.
C5_RoundTripExact ==
    [][RoundTripStep =>
          /\ last'.exc = NoExc
          /\ entries'[last'.store] = entries[last.store]
          /\ metadata'[last'.store].version = metadata[last.store].version
          /\ metadata'[last'.store].updated_at = IsoFormat(now)]_vars

\* C5 amended: the loaded entries have exactly the keys of E, each with the
\* value of E as JSON hands it back: the saved value itself, except that a
\* tuple comes back as the list of its items; version is the saved one and
\* updated_at is the load time.
C5_RoundTripUpToJson ==
    [][RoundTripStep =>
          /\ last'.exc = NoExc
          /\ DOMAIN entries'[last'.store] = DOMAIN entries[last.store]
          /\ \A k \in DOMAIN entries[last.store] :
                entries'[last'.store][k] =
                    IF entries[last.store][k].t = "tuple"
                    THEN [t |-> "list", n |-> entries[last.store][k].n, s |-> <<>>]
                    ELSE entries[last.store][k]
          /\ metadata'[last'.store].version = metadata[last.store].version
          /\ metadata'[last'.store].updated_at = IsoFormat(now)]_vars

\* A store has loaded a document in which another store's tuple was saved.
C5_Witness ==
    /\ last.op = "load"
    /\ last.exc = NoExc
    /\ \E s \in Stores \ {last.store}, k \in UserKeys :
          /\ k \in DOMAIN entries[s]
          /\ k \in DOMAIN entries[last.store]
          /\ entries[s][k].t = "tuple"
          /\ entries[last.store][k] = [t |-> "list", n |-> entries[s][k].n, s |-> <<>>]

\* C6: load of a document that is not in the directory raises NotFound and
\* leaves entries and metadata of every store as they were.
C6_LoadMissing ==
    [][(IsCall("load") /\ EnsureJson(last'.name) \notin DOMAIN dir) =>
          /\ last'.exc = NotFound
          /\ entries' = entries
          /\ metadata' = metadata]_vars

\* A load has failed with NotFound on a store that holds entries and whose
\* updated_at is older than the clock.
C6_Witness ==
    /\ last.op = "load"
    /\ last.exc = NotFound
    /\ entries[last.store] # EmptyEntries
    /\ metadata[last.store].updated_at # IsoFormat(now)

\* C7 as stated: no operation changes the created_at of a store.
C7_CreatedAtNeverChanges ==
    [][\A s \in Stores : metadata'[s].created_at = metadata[s].created_at]_vars

\* C7 amended: set, delete, clear, save and backup leave created_at alone;
\* a successful load replaces it by the created_at of the loaded document.
C7_CreatedAtChangesOnlyByLoad ==
    [][/\ \A s \in Stores :
              metadata'[s].created_at # metadata[s].created_at =>
                  IsCall("load") /\ last'.store = s /\ last'.exc = NoExc
       /\ (IsCall("load") /\ last'.exc = NoExc) =>
              metadata'[last'.store].created_at =
                  dir[EnsureJson(last'.name)].metadata.created_at]_vars

\* The second store, constructed at tick 1, has loaded a document of the
\* agent's store and now carries that store's created_at.
C7_Witness ==
    /\ last.op = "load"
    /\ last.exc = NoExc
    /\ last.store = 2
    /\ metadata[2].created_at = IsoFormat(0)

\* C8: in every reachable state updated_at >= created_at, for every store.
C8_UpdatedNotBeforeCreated ==
    \A s \in Stores : IsoLeq(metadata[s].created_at, metadata[s].updated_at)

\* A store has loaded a document and its updated_at is later than its created_at.
C8_Witness ==
    /\ last.op = "load"
    /\ last.exc = NoExc
    /\ metadata[last.store].updated_at # metadata[last.store].created_at
    /\ IsoLeq(metadata[last.store].created_at, metadata[last.store].updated_at)

\* C9: delete of an absent key returns false without failing and changes
\* neither entries, metadata nor the directory; delete of a present key
\* removes exactly that key and re-stamps updated_at, and the value it
\* returns is true.
C9_Delete ==
    [][IsCall("delete") =>
          IF last'.key \notin DOMAIN entries[last'.store]
          THEN /\ last'.ret = "false"
               /\ last'.exc = NoExc
               /\ entries' = entries
               /\ metadata' = metadata
               /\ dir' = dir
               /\ backups' = backups
          ELSE /\ DOMAIN entries'[last'.store] = DOMAIN entries[last'.store] \ {last'.key}
               /\ \A k \in DOMAIN entries'[last'.store] :
                     entries'[last'.store][k] = entries[last'.store][k]
               /\ \A s \in Stores \ {last'.store} : entries'[s] = entries[s]
               /\ metadata'[last'.store].updated_at = IsoFormat(now)
               /\ last'.ret # "false"
               /\ last'.exc = NoExc => last'.ret = "true"]_vars

\* An autosaving store that holds entries has been asked to delete an absent key.
C9_Witness ==
    /\ last.op = "delete"
    /\ last.ret = "false"
    /\ autosave[last.store]
    /\ entries[last.store] # EmptyEntries

\* This step is a set, a delete of a present key or a clear on a store with
\* autosave enabled, and it returns normally.
AutosavedStep ==
    /\ ops' # ops
    /\ last'.op \in {"set", "delete", "clear"}
    /\ autosave[last'.store]
    /\ last'.exc = NoExc
    /\ last'.ret # "false"

\* C10 as stated: every autosaved mutation adds a document to the directory.
C10_EveryAutosaveAddsDocument ==
    [][AutosavedStep => Cardinality(DOMAIN dir') = Cardinality(DOMAIN dir) + 1]_vars

\* C10 amended: every autosaved mutation writes the store's content to the
\* document named after the current second and touches no other document;
\* the number of documents grows by one exactly when no document of that
\* second existed, otherwise that document is overwritten.
C10_AutosaveWritesDocumentOfSecond ==
    [][AutosavedStep =>
          LET p == [kind |-> "state", id |-> now \div TicksPerSecond, ext |-> 1]
          IN  /\ DOMAIN dir' = DOMAIN dir \cup {p}
              /\ dir'[p].whole
              /\ dir'[p].metadata = metadata'[last'.store]
              /\ DOMAIN dir'[p].state = DOMAIN entries'[last'.store]
              /\ \A q \in DOMAIN dir : q # p => dir'[q] = dir[q]
              /\ Cardinality(DOMAIN dir') =
                     Cardinality(DOMAIN dir) + (IF p \in DOMAIN dir THEN 0 ELSE 1)]_vars

\* Two sets on the autosaving store have left a single document, which holds
\* both keys.
C10_Witness ==
    /\ ops = 2
    /\ last.op = "set"
    /\ last.exc = NoExc
    /\ autosave[last.store]
    /\ DOMAIN entries[last.store] = UserKeys
    /\ Cardinality(DOMAIN dir) = 1
    /\ \A p \in DOMAIN dir : dir[p].whole /\ DOMAIN dir[p].state = UserKeys

\* C11: set(k, v) leaves k bound to v in the store's entries, every other
\* key as it was and updated_at at the current time, whatever v is; the
\* only exception it raises is the serialization failure of its autosave,
\* raised exactly when autosave is on and the entries then held cannot be
\* serialized, and the assignment stays in place when it does.
C11_SetAlwaysInMemory ==
    [][IsCall("set") =>
          LET s == last'.store
              k == last'.key
          IN  /\ k \in DOMAIN entries'[s]
              /\ entries'[s][k] = last'.arg
              /\ DOMAIN entries'[s] = DOMAIN entries[s] \cup {k}
              /\ \A j \in DOMAIN entries[s] \ {k} : entries'[s][j] = entries[s][j]
              /\ metadata'[s].updated_at = IsoFormat(now)
              /\ metadata'[s].created_at = metadata[s].created_at
              /\ last'.exc \in {NoExc, SerializationError}
              /\ last'.exc = SerializationError <=>
                     /\ autosave[s]
                     /\ \E j \in DOMAIN entries'[s] : entries'[s][j].t = "pyobject"
              /\ ~autosave[s] => dir' = dir]_vars

\* A set of an unserializable value on the autosaving store raised, and the
\* value is in the entries under a refreshed updated_at.
C11_Witness ==
    /\ last.op = "set"
    /\ last.exc = SerializationError
    /\ last.arg = PyObject
    /\ autosave[last.store]
    /\ entries[last.store][last.key] = PyObject
    /\ metadata[last.store].updated_at = IsoFormat(now)
    /\ metadata[last.store].updated_at # metadata[last.store].created_at

\* What the calls of lg leave under key k: the value of the latest set of k
\* that no later delete of k and no later clear follows, none when there is
\* no such set.
RECURSIVE LiveValue(_, _)
LiveValue(lg, k) ==
    IF lg = <<>>
    THEN NoValue
    ELSE LET e == lg[Len(lg)]
         IN  IF e.op = "clear" \/ (e.op = "delete" /\ e.key = k)
             THEN NoValue
             ELSE IF e.op = "set" /\ e.key = k
                  THEN e.arg
                  ELSE LiveValue(SubSeq(lg, 1, Len(lg) - 1), k)

\* C12: get(k, d) returns the value of the most recent set of k that is not
\* followed by a delete of k or a clear, and d when there is none; it never
\* fails and changes neither entries, metadata nor the directory; after a
\* clear the entries are empty.
C12_GetReturnsLatestSet ==
    [][/\ IsCall("get") =>
             /\ last'.exc = NoExc
             /\ last'.val = IF LiveValue(log, last'.key) = NoValue
                            THEN last'.arg
                            ELSE LiveValue(log, last'.key)
             /\ entries' = entries
             /\ metadata' = metadata
             /\ dir' = dir
       /\ IsCall("clear") => entries'[last'.store] = EmptyEntries]_vars

\* A get of a key that was set and then deleted returned the caller's
\* default, and a get of a key that was set twice returned the second value.
C12_Witness ==
    /\ last.op = "get"
    /\ Len(log) = 2
    /\ log[1].op = "set"
    /\ log[1].key = last.key
    /\ \/ /\ log[2].op = "delete"
          /\ log[2].key = last.key
          /\ last.val = PyInt(0)
          /\ last.arg = PyInt(0)
       \/ /\ log[2].op = "set"
          /\ log[2].key = last.key
          /\ log[2].arg # log[1].arg
          /\ last.val = log[2].arg

\* C13: validate_state(schema) returns true exactly when no key of the schema
\* is in the entries with a value of another type than the schema expects;
\* a key of the schema that is absent from the entries does not make it
\* false; it never raises and changes neither entries nor metadata.
C13_Validate ==
    [][IsCall("validate") =>
          LET ents == entries[last'.store]
              schema == last'.schema
              mismatched == {k \in DOMAIN schema \cap DOMAIN ents : ents[k].t # schema[k]}
          IN  /\ last'.exc = NoExc
              /\ last'.ret \in {"true", "false"}
              /\ last'.ret = "true" <=> mismatched = {}
              /\ entries' = entries
              /\ metadata' = metadata
              /\ dir' = dir]_vars

\* A schema naming a key the entries hold with the expected type and a key
\* the entries lack was found valid.
C13_Witness ==
    /\ last.op = "validate"
    /\ last.ret = "true"
    /\ \E k \in DOMAIN last.schema : k \notin DOMAIN entries[last.store]
    /\ \E k \in DOMAIN last.schema :
          k \in DOMAIN entries[last.store] /\ entries[last.store][k].t = last.schema[k]

\* This step is a change the caller makes to the mapping get_state returned.
SnapshotStep == snapshot' # snapshot /\ ops' = ops

\* C14: no change made through the mapping get_state returned, be it a key
\* added or removed or a nested value changed in place, changes the entries
\* of the store.
C14_SnapshotIsDefensiveCopy ==
    [][SnapshotStep => entries' = entries]_vars

\* The file a name given with or without ".json" stands for if the suffix is
\* appended only when the name lacks it.
WithOneJson(name) == [name EXCEPT !.ext = 1]

\* C15: save and load append ".json" only when the name lacks it: a save
\* under a name given with or without the suffix writes the one file of that
\* name, and a load that follows a save and is given the identical name
\* finds the document.
C15_SameNameSaveLoad ==
    [][/\ (IsCall("save") /\ last'.name # NoName /\ last'.exc = NoExc) =>
             DOMAIN dir' = DOMAIN dir \cup {WithOneJson(last'.name)}
       /\ (IsCall("load") /\ last.op = "save" /\ last.exc = NoExc
                          /\ last.name = last'.name) =>
             last'.exc # NotFound]_vars

\* The state field of a document holds the content of the entries: the same
\* keys, each with the items and text of the entry's value.
HoldsEntries(state, ents) ==
    /\ DOMAIN state = DOMAIN ents
    /\ \A k \in DOMAIN ents :
          /\ ents[k].t # "pyobject"
          /\ state[k].n = ents[k].n
          /\ state[k].s = ents[k].s

\* C16: backup() with the default directory leaves entries, metadata
\* (updated_at included), every document of the storage directory and what
\* list_states returns as they were, and a plain save() that follows it
\* writes the document named after the current second as it would have
\* without the backup; when backup returns, the backups subdirectory holds
\* the backup of the current second, a whole document with the current
\* metadata and entries, and its other documents are unchanged.
C16_BackupLeavesStoreAlone ==
    [][/\ IsCall("backup") =>
             LET s == last'.store
                 p == [kind |-> "backup", id |-> now \div TicksPerSecond, ext |-> 1]
             IN  /\ entries' = entries
                 /\ metadata' = metadata
                 /\ dir' = dir
                 /\ ListStates(dir') = ListStates(dir)
                 /\ last'.exc = NoExc =>
                        /\ DOMAIN backups' = DOMAIN backups \cup {p}
                        /\ backups'[p].whole
                        /\ backups'[p].metadata = metadata[s]
                        /\ HoldsEntries(backups'[p].state, entries[s])
                        /\ \A q \in DOMAIN backups \ {p} : backups'[q] = backups[q]
       /\ (IsCall("save") /\ last.op = "backup" /\ last'.name = NoName) =>
             DOMAIN dir' =
                 DOMAIN dir \cup {[kind |-> "state", id |-> now \div TicksPerSecond, ext |-> 1]}]_vars

\* A backup of a store whose entries were set after its creation has
\* returned, with documents in the storage directory.
C16_Witness ==
    /\ last.op = "backup"
    /\ last.exc = NoExc
    /\ entries[last.store] # EmptyEntries
    /\ metadata[last.store].updated_at # metadata[last.store].created_at
    /\ ListStates(dir) # {}
    /\ backups # EmptyDir

\* The place of a step in Starting, Processing, Succeeded or Failed, Stopping.
StepRank(h) ==
    CASE h = "on_start" -> 1
      [] h = "process" -> 2
      [] h = "on_success" -> 3
      [] h = "on_error" -> 3
      [] h = "on_stop" -> 4

\* The steps the current or last run has taken are in the fixed order, each
\* taken once: on_start first, with last_start written when process is
\* invoked directly after it; on_success or on_error directly after process;
\* on_stop at the end of a finished run.
StepsInFixedOrder ==
    /\ \A i \in 1..Len(hooks), j \in 1..Len(hooks) :
          i < j => /\ StepRank(hooks[i]) <= StepRank(hooks[j])
                   /\ hooks[i] # hooks[j]
    /\ hooks # <<>> => hooks[1] = "on_start"
    /\ \A i \in 1..Len(hooks) :
          hooks[i] = "process" =>
              /\ i = 2
              /\ "last_start" \in DOMAIN written
              /\ "last_start" \in DOMAIN AgentEntries
              /\ i < Len(hooks) => hooks[i + 1] \in {"on_success", "on_error"}
              /\ pc \notin {"on_success", "on_error"} => i < Len(hooks)
    /\ RunFinished => hooks[Len(hooks)] = "on_stop"
    /\ (hooks # <<>> /\ hooks[Len(hooks)] = "on_stop") => pc = "idle"

C18_RunningExactlyDuringRun ==
    running <=> pc # "idle"

\* C19: a finished run has invoked exactly one of on_success and on_error;
\* on_error is invoked only after process itself raised, so no run writes
\* both last_success and last_error, and none writes last_error when
\* process returned or was not invoked.
C19_ExactlyOneOutcomeHook ==
    /\ RunFinished => CountOf(hooks, "on_success") + CountOf(hooks, "on_error") = 1
    /\ CountOf(hooks, "on_error") > 0 =>
          /\ CountOf(hooks, "process") = 1
          /\ procOut.kind = "raise"
    /\ ~({"last_success", "last_error"} \subseteq DOMAIN written)
    /\ "last_error" \in DOMAIN written => procOut.kind = "raise"

\* C20: when a set, a delete of a present key or a clear on a store with
\* autosave enabled returns normally, the storage directory holds a whole
\* document whose metadata is the store's metadata and whose state holds the
\* store's entries as they are after the call.
C20_DiskAgreesAfterAutosave ==
    [][AutosavedStep =>
          \E p \in ListStates(dir') :
              /\ dir'[p].whole
              /\ dir'[p].metadata = metadata'[last'.store]
              /\ dir'[p].metadata.updated_at = IsoFormat(now)
              /\ HoldsEntries(dir'[p].state, entries'[last'.store])]_vars

\* A delete of a present key on the autosaving store returned after an
\* earlier autosave of the same second: the one document holds the entries
\* without the key.
C20_Witness ==
    /\ last.op = "delete"
    /\ last.ret = "true"
    /\ autosave[last.store]
    /\ entries[last.store] # EmptyEntries
    /\ Cardinality(DOMAIN dir) = 1
    /\ \A p \in DOMAIN dir : HoldsEntries(dir[p].state, entries[last.store])

\* This step is a save, or a mutation of an autosaving store, that failed
\* with the serialization error.
FailedSaveStep ==
    /\ ops' # ops
    /\ last'.op \in {"save", "set", "delete", "clear"}
    /\ last'.exc = SerializationError

\* C21: every document of the storage directory is at all times a whole
\* {metadata, state} snapshot: a save that fails with the serialization
\* error leaves the directory as it was, neither a partial document nor the
\* previous document of that name lost, and a load of a document the
\* directory lists succeeds.
C21_EveryDocumentWhole ==
    [][/\ \A p \in DOMAIN dir' : dir'[p].whole
       /\ FailedSaveStep => dir' = dir
       /\ (IsCall("load") /\ EnsureJson(last'.name) \in ListStates(dir)) =>
             last'.exc = NoExc]_vars

====
